---- MODULE Spec2Model ----
(***************************************************************************)
(* The user entity synchronisation layer of myApp: the zod schemas of      *)
(* user.types.ts, the validated HTTP service userService.ts and the        *)
(* zustand store userStore.ts, together with the remote API they talk to.  *)
(*                                                                         *)
(* Strings whose characters matter (name, email, password) are tuples of   *)
(* one-character strings.  Identifiers are naturals standing for UUID      *)
(* strings; error messages are tuples of lines, the empty tuple being      *)
(* null.  A nullable user (selectedUser) is the empty tuple or <<user>>.   *)
(***************************************************************************)
EXTENDS Naturals, Integers, Sequences, FiniteSets, TLC

VARIABLES users, loading, error, selectedUser, tasks, ev, db, nextId, faults,
          clearedAt, ui

vars == <<users, loading, error, selectedUser, tasks, ev, db, nextId, faults,
          clearedAt, ui>>
store == <<users, loading, error, selectedUser>>

\* tasks: the thunk invocations so far, in invocation order.
\* ev: the last operation on the store (history): which operation, of which
\*     task, and the store's state just before it.
\* db, nextId: the collection held by the remote API and the next
\*     identifier it hands out.
\* faults: how many requests have met a transport fault (no response, or a
\*     response body that breaks the contract).
\* clearedAt: <<n>> when the consumer's last write of selectedUser was
\*     setSelectedUser(null), made after n invocations (history); else <<>>.
\* ui: the screens: which one is on top (screen), the route parameters the
\*     form screen was last opened with (route), the callbacks React has
\*     queued, in order (pending: the mount effect and the effect cleanup
\*     of UserFormScreen), the user whose confirmation dialog is open
\*     (dialog), and (history) which handler
\*     invoked each task (origin), the alerts the handlers have shown after
\*     their await (alerts) and the submits whose handler has called
\*     goBack (backs).

(***************************************************************************)
(* Bounds of the model.                                                    *)
(***************************************************************************)
\* Store actions invoked in one behaviour.
MaxInv == 3
\* Identifiers the server can hand out (the first one is taken in Init).
MaxId == 2
\* Transport faults in one behaviour.
MaxFaults == 1
\* Store actions invoked in one behaviour of the specification with
\* fairness.
MaxLive == 2
\* Store actions invoked in one behaviour of the specification with the
\* wide inputs.
MaxWide == 1
\* Store actions invoked in one behaviour of the specification with the
\* setters.
MaxUI == 2
\* Store actions invoked in one behaviour of the specification with the
\* screens.
MaxForm == 5

(***************************************************************************)
(* Characters and the string tests the schemas use.                        *)
(***************************************************************************)
Lower == {"a","b","c","d","e","f","g","h","i","j","k","l","m",
          "n","o","p","q","r","s","t","u","v","w","x","y","z"}
Upper == {"A","B","C","D","E","F","G","H","I","J","K","L","M",
          "N","O","P","Q","R","S","T","U","V","W","X","Y","Z"}
Digit == {"0","1","2","3","4","5","6","7","8","9"}
Letter == Lower \cup Upper
Alnum == Letter \cup Digit

MaxNameLen == 255
MinPasswordLen == 6

Null == <<>>

\* The characters "." of a regular expression does not match (no s flag);
\* U+2028 and U+2029 are written by their names.
LineTerminator == {"\n", "\r", "U+2028", "U+2029"}

\* ^(?=.*[class]): a character of the class after any number of characters
\* "." matches, counted from the start of the string.
HasChar(s, S) ==
    \E i \in 1..Len(s) :
        /\ s[i] \in S
        /\ \A j \in 1..(i - 1) : s[j] \notin LineTerminator

\* The regular expression of z.string().email(), case-insensitive:
\* ^(?!\.)(?!.*\.\.)([A-Z0-9_'+\-\.]*)[A-Z0-9_+-]@([A-Z0-9][A-Z0-9\-]*\.)+[A-Z]{2,}$
DomainOk(d) ==
    LET dots == {i \in 1..Len(d) : d[i] = "."}
        last == CHOOSE i \in dots : \A j \in dots : j <= i
    IN  /\ dots # {}
        /\ \A i \in 1..last :
              /\ d[i] \in Alnum \cup {"-", "."}
              /\ (i = 1 \/ d[i-1] = ".") => d[i] \in Alnum
        /\ Len(d) - last >= 2
        /\ \A i \in (last+1)..Len(d) : d[i] \in Letter

IsEmail(s) ==
    LET ats == {i \in 1..Len(s) : s[i] = "@"}
        k == CHOOSE i \in ats : TRUE
    IN  /\ Cardinality(ats) = 1
        /\ k >= 2
        /\ s[1] # "."
        /\ \A i \in 1..(Len(s)-1) : ~(s[i] = "." /\ s[i+1] = ".")
        /\ \A i \in 1..(k-2) : s[i] \in Alnum \cup {"_", "'", "+", "-", "."}
        /\ s[k-1] \in Alnum \cup {"_", "+", "-"}
        /\ DomainOk(SubSeq(s, k+1, Len(s)))

\* /^(?=.*[a-z])(?=.*[A-Z])(?=.*\d)/
PasswordRegex(s) == HasChar(s, Lower) /\ HasChar(s, Upper) /\ HasChar(s, Digit)

(***************************************************************************)
(* The schemas.  A DTO is a function from the fields present to their      *)
(* values.  Each schema yields the issues zod reports, in zod's order      *)
(* (object keys in declaration order, the checks of one string in chain    *)
(* order, every failing check reported).  An issue is a triple of strings: *)
(* the index of the array element it is about ("" outside an array), the   *)
(* field it is about, and its message.  The message of a ZodError is the   *)
(* list of its issues; the message of any other Error is one line with no  *)
(* index and no field.                                                     *)
(***************************************************************************)
Issue(field, text) == <<"", field, text>>
Plain(text) == <<"", "", text>>
IndexPath(k) == <<"0", "1", "2", "3", "4", "5", "6", "7", "8", "9">>[k]
AtIndex(k, issues) ==
    [j \in 1..Len(issues) |-> <<IndexPath(k), issues[j][2], issues[j][3]>>]

nameIssues(d) ==
    IF "name" \notin DOMAIN d THEN <<Issue("name", "Required")>>
    ELSE (IF Len(d["name"]) < 1 THEN <<Issue("name", "O nome e obrigatorio")>> ELSE <<>>)
      \o (IF Len(d["name"]) > MaxNameLen
          THEN <<Issue("name", "O nome deve conter no maximo 255 caracteres")>> ELSE <<>>)

emailIssues(d) ==
    IF "email" \notin DOMAIN d THEN <<Issue("email", "Required")>>
    ELSE (IF ~IsEmail(d["email"]) THEN <<Issue("email", "Email invalido")>> ELSE <<>>)
      \o (IF Len(d["email"]) < 1 THEN <<Issue("email", "O email e obrigatorio")>> ELSE <<>>)

passwordIssues(d) ==
    IF "password" \notin DOMAIN d THEN <<Issue("password", "Required")>>
    ELSE (IF Len(d["password"]) < MinPasswordLen
          THEN <<Issue("password", "A senha deve ter no minimo 6 caracteres")>> ELSE <<>>)
      \o (IF ~PasswordRegex(d["password"])
          THEN <<Issue("password", "A senha deve conter pelo menos uma letra maiuscula, uma minuscula e um numero")>>
          ELSE <<>>)

\* createUserSchema with the bug of not checking the name.
createUserSchemaNoName(d) == emailIssues(d) \o passwordIssues(d)

createUserSchema(d) == nameIssues(d) \o emailIssues(d) \o passwordIssues(d)

\* updateUserSchema with the bug of still requiring the name.
updateUserSchemaRequiresName(d) ==
       nameIssues(d)
    \o (IF "email" \in DOMAIN d THEN emailIssues(d) ELSE <<>>)
    \o (IF "password" \in DOMAIN d THEN passwordIssues(d) ELSE <<>>)

\* createUserSchema.partial(): an absent field raises no issue.
updateUserSchema(d) ==
       (IF "name" \in DOMAIN d THEN nameIssues(d) ELSE <<>>)
    \o (IF "email" \in DOMAIN d THEN emailIssues(d) ELSE <<>>)
    \o (IF "password" \in DOMAIN d THEN passwordIssues(d) ELSE <<>>)

\* Response bodies.  A user is a record of the seven fields of
\* userResponseSchema; the identifiers and date-times that pass the uuid
\* and datetime tests are the ones below.
Uuids == 1..MaxId
DateTime == "2024-01-01T00:00:00Z"
NotADateTime == "01/01/2024"
IsUuid(x) == x \in Uuids
IsDateTime(x) == x = DateTime

\* The type of a JSON value written as its text ("true", "false", "null",
\* a digit); any other text is a string.
JsonType(v) ==
    CASE v \in {"true", "false"} -> "boolean"
      [] v = "null" -> "null"
      [] v \in Digit -> "number"
      [] OTHER -> "string"

\* is_active: z.boolean()
isActiveIssues(u) ==
    IF "is_active" \notin DOMAIN u THEN <<Issue("is_active", "Required")>>
    ELSE CASE JsonType(u.is_active) = "boolean" -> <<>>
           [] JsonType(u.is_active) = "null" ->
                <<Issue("is_active", "Expected boolean, received null")>>
           [] JsonType(u.is_active) = "number" ->
                <<Issue("is_active", "Expected boolean, received number")>>
           [] OTHER ->
                <<Issue("is_active", "Expected boolean, received string")>>

userResponseSchema(u) ==
       (IF ~IsUuid(u.id) THEN <<Issue("id", "Invalid uuid")>> ELSE <<>>)
    \o (IF "name" \notin DOMAIN u THEN <<Issue("name", "Required")>> ELSE <<>>)
    \o (IF ~IsEmail(u.email) THEN <<Issue("email", "Invalid email")>> ELSE <<>>)
    \o (IF ~IsDateTime(u.created_at) THEN <<Issue("created_at", "Invalid datetime")>> ELSE <<>>)
    \o (IF ~IsDateTime(u.updated_at) THEN <<Issue("updated_at", "Invalid datetime")>> ELSE <<>>)
    \o (IF ~(u.deleted_at = "null" \/ IsDateTime(u.deleted_at))
        THEN <<Issue("deleted_at", "Invalid datetime")>> ELSE <<>>)
    \o isActiveIssues(u)

RECURSIVE userArrayIssues(_, _)
\* The issues of the elements of us from the k-th on, each under the path
\* of its element.
userArrayIssues(us, k) ==
    IF k > Len(us) THEN <<>>
    ELSE AtIndex(k, userResponseSchema(us[k])) \o userArrayIssues(us, k + 1)

\* z.array(userResponseSchema)
userArraySchema(us) == userArrayIssues(us, 1)

(***************************************************************************)
(* Users, requests and the remote API.                                     *)
(***************************************************************************)
User(id, name, email) ==
    [id |-> id, name |-> name, email |-> email, created_at |-> DateTime,
     updated_at |-> DateTime, deleted_at |-> "null", is_active |-> "true"]

NameAna == <<"A","n","a">>
NameX == <<"X">>
NameNew == <<"N","e","w">>
EmailAB == <<"a","@","b",".","c","o","m">>
PasswordOk == <<"A","b","c","d","e","f","1">>

\* The inputs the consumers hand to createUser and updateUser.
CreateInputs ==
    { [name |-> NameAna, email |-> EmailAB, password |-> PasswordOk],
      [name |-> <<>>, email |-> EmailAB, password |-> PasswordOk] }
UpdateInputs == { [name |-> NameX], [name |-> NameNew], [name |-> <<>>] }
NoData == [x \in {} |-> <<>>]
NoId == 0

\* The wide inputs: every DTO with any of the three fields present, each
\* with a value that meets its rules or breaks one or two of them.  What a
\* caller passes at run time need not have the fields its type promises.
NameLong == [i \in 1..(MaxNameLen + 1) |-> "a"]
EmailNoAt == <<"a", "b">>
PasswordShort == <<"A", "b", "1">>
PasswordPlain == <<"a", "b", "c", "d", "e", "f", "g">>
PasswordTwoLines == <<"a", "b", "c", "d", "e", "\n", "A", "1">>
DTOFields == {"name", "email", "password"}
FieldValues(f) ==
    CASE f = "name" -> {<<>>, NameAna, NameLong}
      [] f = "email" -> {EmailAB, EmailNoAt, <<>>}
      [] f = "password" -> {PasswordOk, PasswordShort, PasswordPlain,
                            PasswordTwoLines}
DTOs ==
    UNION { {d \in [S -> UNION {FieldValues(f) : f \in DTOFields}] :
                \A f \in S : d[f] \in FieldValues(f)} : S \in SUBSET DTOFields }

\* One invocation of a thunk: its arguments, how far it has got ("sent":
\* the request is in flight; "settled": the promise of the userService call
\* is resolved or rejected; "done": the thunk has written its result), the
\* issues of the outbound validation, the HTTP status and body received,
\* and how the promise the thunk returned to its caller ended.
\* History: doneAt is the number of invocations made when the thunk
\* finished, doneSeq its rank among the finished thunks.  service is the
\* userService method the thunk has called with these arguments.
\* The userService method each thunk awaits.
serviceOf(kind) ==
    CASE kind = "fetchUsers" -> "list"
      [] kind = "createUser" -> "create"
      [] kind = "updateUser" -> "update"
      [] kind = "deleteUser" -> "delete"
      [] kind = "fetchUserById" -> "getById"

\* Task with the bug of sending the request whatever the validation said.
TaskAlwaysSent(kind, id, data, invalid) ==
    [kind |-> kind, service |-> serviceOf(kind),
     id |-> id, data |-> data, invalid |-> invalid,
     phase |-> "sent",
     status |-> "none", body |-> <<>>, outcome |-> "pending",
     doneAt |-> 0, doneSeq |-> 0]

Task(kind, id, data, invalid) ==
    [kind |-> kind, service |-> serviceOf(kind),
     id |-> id, data |-> data, invalid |-> invalid,
     phase |-> IF invalid = <<>> THEN "sent" ELSE "settled",
     status |-> "none", body |-> <<>>, outcome |-> "pending",
     doneAt |-> 0, doneSeq |-> 0]

Outstanding == {i \in 1..Len(tasks) : tasks[i].phase # "done"}
Find(s, id) == {k \in 1..Len(s) : s[k].id = id}

\* What the server does to its collection for a request, and what it answers.
Merge(u, data) ==
    [u EXCEPT !.name = IF "name" \in DOMAIN data THEN data["name"] ELSE @,
              !.email = IF "email" \in DOMAIN data THEN data["email"] ELSE @]

Replace(s, id, v) == [k \in 1..Len(s) |-> IF s[k].id = id THEN v ELSE s[k]]
Remove(s, id) == SelectSeq(s, LAMBDA u : u.id # id)

serverDb(t) ==
    CASE t.kind = "createUser" ->
            Append(db, User(nextId, t.data["name"], t.data["email"]))
      [] t.kind = "updateUser" /\ Find(db, t.id) # {} ->
            Replace(db, t.id, Merge(db[CHOOSE k \in Find(db, t.id) : TRUE], t.data))
      [] t.kind = "deleteUser" -> Remove(db, t.id)
      [] OTHER -> db

serverStatus(t) ==
    IF t.kind \in {"updateUser", "deleteUser", "fetchUserById"} /\ Find(db, t.id) = {}
    THEN "404" ELSE "200"

serverBody(t) ==
    CASE serverStatus(t) = "404" -> <<>>
      [] t.kind = "fetchUsers" -> db
      [] t.kind = "createUser" -> <<User(nextId, t.data["name"], t.data["email"])>>
      [] t.kind = "updateUser" ->
            <<Merge(db[CHOOSE k \in Find(db, t.id) : TRUE], t.data)>>
      [] t.kind = "fetchUserById" -> <<db[CHOOSE k \in Find(db, t.id) : TRUE]>>
      [] OTHER -> <<>>

\* A body that breaks the contract: its first user carries a bad date-time.
Garble(body) ==
    IF body = <<>> THEN body
    ELSE <<[body[1] EXCEPT !.created_at = NotADateTime]>> \o Tail(body)

(***************************************************************************)
(* userService: the result of a settled call, as the thunk's await sees    *)
(* it.  ok: the promise resolved with value; otherwise it rejected with an *)
(* Error whose message is given.                                           *)
(***************************************************************************)
\* The issues of the inbound validation of the body of a success response:
\* z.array(userResponseSchema) for list, userResponseSchema for the others.
inboundIssues(t) ==
    CASE t.kind = "fetchUsers" -> userArraySchema(t.body)
      [] t.kind = "deleteUser" -> <<>>
      [] OTHER -> userResponseSchema(t.body[1])

Resolved(v) == [ok |-> TRUE, value |-> v, message |-> Null]
Rejected(m) == [ok |-> FALSE, value |-> <<>>, message |-> m]

\* userServiceResult with the bug of handing back bodies unvalidated.
userServiceResultUnvalidated(t) ==
    CASE t.invalid # <<>> -> Rejected(t.invalid)
      [] t.status = "neterr" -> Rejected(<<Plain("Network Error")>>)
      [] t.status = "404" -> Rejected(<<Plain("Request failed with status code 404")>>)
      [] t.status = "500" -> Rejected(<<Plain("Request failed with status code 500")>>)
      [] t.kind = "deleteUser" -> Resolved(<<>>)
      [] OTHER -> Resolved(t.body)

\* userServiceResult with the bug of delete swallowing the error of the
\* request.
userServiceResultDeleteSwallows(t) ==
    CASE t.invalid # <<>> -> Rejected(t.invalid)
      [] t.kind = "deleteUser" -> Resolved(<<>>)
      [] t.status = "neterr" -> Rejected(<<Plain("Network Error")>>)
      [] t.status = "404" -> Rejected(<<Plain("Request failed with status code 404")>>)
      [] t.status = "500" -> Rejected(<<Plain("Request failed with status code 500")>>)
      [] inboundIssues(t) # <<>> -> Rejected(inboundIssues(t))
      [] OTHER -> Resolved(t.body)

userServiceResult(t) ==
    CASE t.invalid # <<>> -> Rejected(t.invalid)
      [] t.status = "neterr" -> Rejected(<<Plain("Network Error")>>)
      [] t.status = "404" -> Rejected(<<Plain("Request failed with status code 404")>>)
      [] t.status = "500" -> Rejected(<<Plain("Request failed with status code 500")>>)
      [] t.kind = "deleteUser" -> Resolved(<<>>)
      [] inboundIssues(t) # <<>> -> Rejected(inboundIssues(t))
      [] OTHER -> Resolved(t.body)

(***************************************************************************)
(* The store.                                                              *)
(***************************************************************************)
Snapshot(us, l, e, sel) == [users |-> us, loading |-> l, error |-> e, selectedUser |-> sel]
Current == Snapshot(users, loading, error, selectedUser)

\* No screen is mounted yet.
NoScreen ==
    [screen |-> "none", route |-> <<>>, pending |-> <<>>, dialog |-> <<>>,
     origin |-> <<>>, alerts |-> {}, backs |-> {}]

Init ==
    /\ users = <<>>
    /\ loading = FALSE
    /\ error = Null
    /\ selectedUser = Null
    /\ tasks = <<>>
    /\ ev = [op |-> "init", i |-> 0, pre |-> Snapshot(<<>>, FALSE, Null, Null)]
    /\ db = <<User(1, NameAna, EmailAB)>>
    /\ nextId = 2
    /\ faults = 0
    /\ clearedAt = <<>>
    /\ ui = NoScreen

\* Begin with the bug of leaving the previous error in place.
BeginKeepsError(kind, id, data, invalid) ==
    /\ loading' = TRUE
    /\ tasks' = Append(tasks, Task(kind, id, data, invalid))
    /\ ev' = [op |-> "invoke", i |-> Len(tasks) + 1, pre |-> Current]
    /\ UNCHANGED <<users, error, selectedUser, clearedAt>>

\* try { set({ loading: true, error: null }); ... await userService.x(...)
Begin(kind, id, data, invalid) ==
    /\ loading' = TRUE
    /\ error' = Null
    /\ tasks' = Append(tasks, Task(kind, id, data, invalid))
    /\ ev' = [op |-> "invoke", i |-> Len(tasks) + 1, pre |-> Current]
    /\ UNCHANGED <<users, selectedUser, clearedAt>>

\* The thunks leave the remote API as it is until their request arrives.
remote == <<db, nextId, faults>>

fetchUsers == Begin("fetchUsers", NoId, NoData, <<>>) /\ UNCHANGED remote

createUser(userData) ==
    /\ nextId + Cardinality({i \in 1..Len(tasks) :
           tasks[i].kind = "createUser" /\ tasks[i].phase = "sent"}) <= MaxId
    /\ Begin("createUser", NoId, userData, createUserSchema(userData))
    /\ UNCHANGED remote

updateUser(id, userData) ==
    Begin("updateUser", id, userData, updateUserSchema(userData)) /\ UNCHANGED remote

deleteUser(id) == Begin("deleteUser", id, NoData, <<>>) /\ UNCHANGED remote

fetchUserById(id) == Begin("fetchUserById", id, NoData, <<>>) /\ UNCHANGED remote

\* The remote API answers the request of task i.
apiRespond(i) ==
    /\ tasks[i].phase = "sent"
    /\ \E garbled \in BOOLEAN :
          /\ garbled => faults < MaxFaults
          /\ faults' = IF garbled THEN faults + 1 ELSE faults
          /\ tasks' = [tasks EXCEPT ![i].phase = "settled",
                                 ![i].status = serverStatus(tasks[i]),
                                 ![i].body = IF garbled THEN Garble(serverBody(tasks[i]))
                                             ELSE serverBody(tasks[i])]
    /\ db' = IF serverStatus(tasks[i]) = "200" THEN serverDb(tasks[i]) ELSE db
    /\ nextId' = IF tasks[i].kind = "createUser" THEN nextId + 1 ELSE nextId
    /\ UNCHANGED <<store, ev, clearedAt, ui>>

\* The request of task i gets no response (network failure, timeout).
apiFail(i) ==
    /\ tasks[i].phase = "sent"
    /\ faults < MaxFaults
    /\ faults' = faults + 1
    /\ tasks' = [tasks EXCEPT ![i].phase = "settled", ![i].status = "neterr"]
    /\ UNCHANGED <<store, ev, db, nextId, clearedAt, ui>>

\* A body that breaks the contract: its first user has no name.
GarbleNoName(body) ==
    IF body = <<>> THEN body
    ELSE <<[f \in (DOMAIN body[1]) \ {"name"} |-> body[1][f]]>> \o Tail(body)

\* The remote API handles the request of task i and answers with a body
\* that lacks a field.
apiMalformed(i) ==
    /\ tasks[i].phase = "sent"
    /\ faults < MaxFaults
    /\ faults' = faults + 1
    /\ tasks' = [tasks EXCEPT ![i].phase = "settled",
                               ![i].status = serverStatus(tasks[i]),
                               ![i].body = GarbleNoName(serverBody(tasks[i]))]
    /\ db' = IF serverStatus(tasks[i]) = "200" THEN serverDb(tasks[i]) ELSE db
    /\ nextId' = IF tasks[i].kind = "createUser" THEN nextId + 1 ELSE nextId
    /\ UNCHANGED <<store, ev, clearedAt, ui>>

\* The remote API rejects the request of task i with a server error.
apiReject(i) ==
    /\ tasks[i].phase = "sent"
    /\ faults < MaxFaults
    /\ faults' = faults + 1
    /\ tasks' = [tasks EXCEPT ![i].phase = "settled", ![i].status = "500"]
    /\ UNCHANGED <<store, ev, db, nextId, clearedAt, ui>>

\* usersOnSuccess with the bug of merging a fetched list into the old one.
usersOnSuccessFetchAppends(t, v) ==
    CASE t.kind = "fetchUsers" -> users \o v
      [] t.kind = "createUser" -> Append(users, v[1])
      [] t.kind = "updateUser" -> Replace(users, t.id, v[1])
      [] t.kind = "deleteUser" -> Remove(users, t.id)
      [] OTHER -> users

\* usersOnSuccess with the bug of fetchUserById writing the fetched user
\* into users as well.
usersOnSuccessByIdReplaces(t, v) ==
    CASE t.kind = "fetchUsers" -> v
      [] t.kind = "createUser" -> Append(users, v[1])
      [] t.kind = "updateUser" -> Replace(users, t.id, v[1])
      [] t.kind = "deleteUser" -> Remove(users, t.id)
      [] t.kind = "fetchUserById" -> Replace(users, t.id, v[1])
      [] OTHER -> users

\* usersOnSuccess with the bug of createUser putting the new user first.
usersOnSuccessCreatePrepends(t, v) ==
    CASE t.kind = "fetchUsers" -> v
      [] t.kind = "createUser" -> <<v[1]>> \o users
      [] t.kind = "updateUser" -> Replace(users, t.id, v[1])
      [] t.kind = "deleteUser" -> Remove(users, t.id)
      [] OTHER -> users

\* usersOnSuccess with the bug of updateUser moving the user to the end.
usersOnSuccessUpdateMoves(t, v) ==
    CASE t.kind = "fetchUsers" -> v
      [] t.kind = "createUser" -> Append(users, v[1])
      [] t.kind = "updateUser" -> Append(Remove(users, t.id), v[1])
      [] t.kind = "deleteUser" -> Remove(users, t.id)
      [] OTHER -> users

\* usersOnSuccess with the bug of deleteUser removing the first element of
\* that identifier only.
usersOnSuccessDeleteRemovesOne(t, v) ==
    CASE t.kind = "fetchUsers" -> v
      [] t.kind = "createUser" -> Append(users, v[1])
      [] t.kind = "updateUser" -> Replace(users, t.id, v[1])
      [] t.kind = "deleteUser" /\ Find(users, t.id) # {} ->
            LET k == CHOOSE i \in Find(users, t.id) : \A j \in Find(users, t.id) : i <= j
            IN  SubSeq(users, 1, k - 1) \o SubSeq(users, k + 1, Len(users))
      [] OTHER -> users

\* The state a thunk writes when its await resolves with value v.
usersOnSuccess(t, v) ==
    CASE t.kind = "fetchUsers" -> v
      [] t.kind = "createUser" -> Append(users, v[1])
      [] t.kind = "updateUser" -> Replace(users, t.id, v[1])
      [] t.kind = "deleteUser" -> Remove(users, t.id)
      [] OTHER -> users

\* selectedOnSuccess with the bug of dropping the selection on a reload.
selectedOnSuccessReloadClears(t, v) ==
    CASE t.kind = "fetchUserById" -> <<v[1]>>
      [] t.kind = "fetchUsers" -> Null
      [] OTHER -> selectedUser

selectedOnSuccess(t, v) ==
    IF t.kind = "fetchUserById" THEN <<v[1]>> ELSE selectedUser

\* loadingOnSettle with the bug of a catch block that forgets loading.
loadingOnSettleOkOnly(r) == IF r.ok THEN FALSE ELSE loading

\* Both the try and the catch block end with loading: false.
loadingOnSettle(r) == FALSE

\* errorOnSuccess with the bug of a success resetting error.
errorOnSuccessClears == Null

\* The success branch of a thunk writes no error: it stays as it is.
errorOnSuccess == error

\* errorOnFailure with the bug of recording nothing.
errorOnFailureNull(r) == Null

\* catch (error) { set({ error: error.message, loading: false }) }
errorOnFailure(r) == r.message

\* thunkOutcome with the bug of a catch block that throws again.
thunkOutcomeRethrows(r) == IF r.ok THEN "fulfilled" ELSE "rejected"

\* The try block and the catch block both run to their end: the promise of
\* the thunk is fulfilled whatever the userService call did.
thunkOutcome(r) == "fulfilled"

\* The rest of the thunk of task i, after its await.
Settle(i) ==
    /\ tasks[i].phase = "settled"
    /\ LET r == userServiceResult(tasks[i])
       IN  IF r.ok
           THEN /\ users' = usersOnSuccess(tasks[i], r.value)
                /\ selectedUser' = selectedOnSuccess(tasks[i], r.value)
                /\ error' = errorOnSuccess
           ELSE /\ error' = errorOnFailure(r)
                /\ UNCHANGED <<users, selectedUser>>
    /\ loading' = loadingOnSettle(userServiceResult(tasks[i]))
    /\ tasks' = [tasks EXCEPT ![i].phase = "done", ![i].doneAt = Len(tasks),
                               ![i].outcome = thunkOutcome(userServiceResult(tasks[i])),
                               ![i].doneSeq = Len(tasks) - Cardinality(Outstanding) + 1]
    /\ ev' = [op |-> "settle", i |-> i, pre |-> Current]
    /\ UNCHANGED <<db, nextId, faults, clearedAt>>

\* The setters: set({ field: value }).
Set(name) ==
    /\ ev' = [op |-> name, i |-> 0, pre |-> Current]
    /\ UNCHANGED <<tasks, db, nextId, faults>>

setUsers(us) ==
    /\ users' = us
    /\ Set("setUsers")
    /\ UNCHANGED <<loading, error, selectedUser, clearedAt>>

setLoading(b) ==
    /\ loading' = b
    /\ Set("setLoading")
    /\ UNCHANGED <<users, error, selectedUser, clearedAt>>

setError(e) ==
    /\ error' = e
    /\ Set("setError")
    /\ UNCHANGED <<users, loading, selectedUser, clearedAt>>

\* setSelectedUser with the bug of resetting error as well.
setSelectedUserClearsError(u) ==
    /\ selectedUser' = u
    /\ error' = Null
    /\ clearedAt' = IF u = Null THEN <<Len(tasks)>> ELSE <<>>
    /\ Set("setSelectedUser")
    /\ UNCHANGED <<users, loading>>

setSelectedUser(u) ==
    /\ selectedUser' = u
    /\ clearedAt' = IF u = Null THEN <<Len(tasks)>> ELSE <<>>
    /\ Set("setSelectedUser")
    /\ UNCHANGED <<users, loading, error>>

Next ==
    \/ Len(tasks) < MaxInv /\ fetchUsers /\ UNCHANGED ui
    \/ Len(tasks) < MaxInv /\ \E d \in CreateInputs : createUser(d) /\ UNCHANGED ui
    \/ Len(tasks) < MaxInv /\ \E id \in Uuids, d \in UpdateInputs : updateUser(id, d) /\ UNCHANGED ui
    \/ Len(tasks) < MaxInv /\ \E id \in Uuids : deleteUser(id) /\ UNCHANGED ui
    \/ Len(tasks) < MaxInv /\ \E id \in Uuids : fetchUserById(id) /\ UNCHANGED ui
    \/ \E i \in 1..Len(tasks) : apiRespond(i)
    \/ \E i \in 1..Len(tasks) : apiFail(i)
    \/ \E i \in 1..Len(tasks) : Settle(i) /\ UNCHANGED ui

Spec == Init /\ [][Next]_vars

\* Every transport call eventually resolves or rejects, and the event loop
\* runs the continuation of every settled promise.
\* Next, with at most MaxLive invocations.
NextLive ==
    \/ Len(tasks) < MaxLive /\ fetchUsers /\ UNCHANGED ui
    \/ Len(tasks) < MaxLive /\ \E d \in CreateInputs : createUser(d) /\ UNCHANGED ui
    \/ Len(tasks) < MaxLive /\ \E id \in Uuids, d \in UpdateInputs : updateUser(id, d) /\ UNCHANGED ui
    \/ Len(tasks) < MaxLive /\ \E id \in Uuids : deleteUser(id) /\ UNCHANGED ui
    \/ Len(tasks) < MaxLive /\ \E id \in Uuids : fetchUserById(id) /\ UNCHANGED ui
    \/ \E i \in 1..Len(tasks) : apiRespond(i)
    \/ \E i \in 1..Len(tasks) : apiFail(i)
    \/ \E i \in 1..Len(tasks) : Settle(i) /\ UNCHANGED ui

SpecLive ==
    /\ Init /\ [][NextLive]_vars
    /\ WF_vars(\E i \in 1..Len(tasks) : apiRespond(i) \/ apiFail(i))
    /\ WF_vars(\E i \in 1..Len(tasks) : Settle(i) /\ UNCHANGED ui)

\* The thunks called once with the wide inputs, against a remote API that
\* can also answer with a server error or with a body lacking a field.
NextWide ==
    \/ Len(tasks) < MaxWide /\ fetchUsers /\ UNCHANGED ui
    \/ Len(tasks) < MaxWide /\ \E d \in DTOs : createUser(d) /\ UNCHANGED ui
    \/ Len(tasks) < MaxWide /\ \E id \in Uuids, d \in DTOs : updateUser(id, d) /\ UNCHANGED ui
    \/ Len(tasks) < MaxWide /\ \E id \in Uuids : deleteUser(id) /\ UNCHANGED ui
    \/ Len(tasks) < MaxWide /\ \E id \in Uuids : fetchUserById(id) /\ UNCHANGED ui
    \/ \E i \in 1..Len(tasks) : apiRespond(i)
    \/ \E i \in 1..Len(tasks) : apiFail(i)
    \/ \E i \in 1..Len(tasks) : apiMalformed(i)
    \/ \E i \in 1..Len(tasks) : apiReject(i)
    \/ \E i \in 1..Len(tasks) : Settle(i) /\ UNCHANGED ui

SpecWide == Init /\ [][NextWide]_vars

\* The values the consumers hand to the setters: an empty list, "not
\* loading", "no error" (clearError), no selection or a user.
SetUsersInputs == {<<>>}
SetLoadingInputs == {FALSE}
SetErrorInputs == {Null}
SetSelectedUserInputs == {Null, <<User(1, NameAna, EmailAB)>>}

\* The store as its consumers can drive it: the thunks and the setters.
NextUI ==
    \/ Len(tasks) < MaxUI /\ fetchUsers /\ UNCHANGED ui
    \/ Len(tasks) < MaxUI /\ \E d \in CreateInputs : createUser(d) /\ UNCHANGED ui
    \/ Len(tasks) < MaxUI /\ \E id \in Uuids : updateUser(id, [name |-> NameX]) /\ UNCHANGED ui
    \/ Len(tasks) < MaxUI /\ \E id \in Uuids : deleteUser(id) /\ UNCHANGED ui
    \/ Len(tasks) < MaxUI /\ \E id \in Uuids : fetchUserById(id) /\ UNCHANGED ui
    \/ \E i \in 1..Len(tasks) : apiRespond(i)
    \/ \E i \in 1..Len(tasks) : apiFail(i)
    \/ \E i \in 1..Len(tasks) : Settle(i) /\ UNCHANGED ui
    \/ \E us \in SetUsersInputs : setUsers(us) /\ UNCHANGED ui
    \/ \E b \in SetLoadingInputs : setLoading(b) /\ UNCHANGED ui
    \/ \E e \in SetErrorInputs : setError(e) /\ UNCHANGED ui
    \/ \E u \in SetSelectedUserInputs : setSelectedUser(u) /\ UNCHANGED ui

SpecUI == Init /\ [][NextUI]_vars

(***************************************************************************)
(* The screens.  UserListScreen is the first screen; UserFormScreen is     *)
(* pushed on top of it.  A press is handled when no callback is queued and *)
(* no dialog is open; the completion of a thunk can come at any moment,    *)
(* also between a navigation and the effect or cleanup that follows it.    *)
(* A handler that invokes a thunk notes in ui.origin which handler it was  *)
(* and the route parameters of the form screen at that moment.             *)
(***************************************************************************)
\* const userId = "233" of UserFormScreen: no uuid, and no user of the
\* remote API.
userId == 233

Invoked(by) == [ui EXCEPT !.origin = Append(@, <<by, ui.route>>)]
CanPress == ui.pending = <<>> /\ ui.dialog = <<>>

\* UserListScreen mounts: useEffect(() => { fetchUsers() }, []).
listMount ==
    /\ ui.screen = "none"
    /\ Len(tasks) < MaxForm
    /\ fetchUsers
    /\ ui' = [Invoked("list") EXCEPT !.screen = "list"]

\* The list is on top and shows its FlatList (no error).
ListShown == ui.screen = "list" /\ error = Null

\* Pull to refresh: onRefresh={fetchUsers}, with refreshing={loading}.
listRefresh ==
    /\ CanPress /\ ListShown /\ ~loading
    /\ Len(tasks) < MaxForm
    /\ fetchUsers
    /\ ui' = Invoked("list")

\* "Tentar novamente" of the list's error view: onPress={fetchUsers}.
listRetry ==
    /\ CanPress /\ ui.screen = "list" /\ error # Null
    /\ Len(tasks) < MaxForm
    /\ fetchUsers
    /\ ui' = Invoked("list")

\* "Excluir" of a row: handleDelete(id) opens the confirmation dialog.
handleDelete(id) ==
    /\ CanPress /\ ListShown /\ Find(users, id) # {}
    /\ ui' = [ui EXCEPT !.dialog = <<id>>]
    /\ UNCHANGED <<store, tasks, ev, remote, clearedAt>>

\* "Excluir" of the dialog: onPress: async () => { await deleteUser(id) }.
confirmDelete ==
    /\ ui.dialog # <<>>
    /\ Len(tasks) < MaxForm
    /\ deleteUser(ui.dialog[1])
    /\ ui' = [Invoked("delete") EXCEPT !.dialog = <<>>]

\* "Cancelar" of the dialog.
cancelDelete ==
    /\ ui.dialog # <<>>
    /\ ui' = [ui EXCEPT !.dialog = <<>>]
    /\ UNCHANGED <<store, tasks, ev, remote, clearedAt>>

\* navigation.navigate('UserForm', route): the form screen is pushed, its
\* mount effect is queued.
navigate(route) ==
    /\ CanPress /\ ListShown
    /\ Len(tasks) < MaxForm
    /\ ui' = [ui EXCEPT !.screen = "form", !.route = route,
                        !.pending = <<"mount">>]
    /\ UNCHANGED <<store, tasks, ev, remote, clearedAt>>

\* "Adicionar Usuario": navigate('UserForm', {}).
navigateAdd == navigate(<<>>)

\* "Editar" of a row: navigate('UserForm', { userId: item.id }).
navigateEdit(id) == Find(users, id) # {} /\ navigate(<<id>>)

\* The mount effect of UserFormScreen:
\* useEffect(() => { if (userId) fetchUserById(userId) ... }, [userId]).
mountForm ==
    /\ ui.pending # <<>> /\ Head(ui.pending) = "mount"
    /\ IF userId # NoId
       THEN /\ fetchUserById(userId)
            /\ ui' = [Invoked("mount") EXCEPT !.pending = Tail(@)]
       ELSE /\ ui' = [ui EXCEPT !.pending = Tail(@)]
            /\ UNCHANGED <<store, tasks, ev, remote, clearedAt>>

\* UserFormScreen renders UserForm (no error), and UserForm renders its
\* "Salvar" button (not loading).
FormShown == ui.screen = "form" /\ error = Null
ButtonShown == FormShown /\ ~loading

\* "Salvar" pressed with values that pass the form's zodResolver:
\* handleSubmit, up to its await.
handleSubmit(data) ==
    /\ CanPress /\ ButtonShown
    /\ createUserSchema(data) = <<>>
    /\ Len(tasks) < MaxForm
    /\ IF userId # NoId THEN updateUser(userId, data) ELSE createUser(data)
    /\ ui' = Invoked("submit")

\* navigation.goBack(): the screen on top is popped if it is a form screen,
\* whichever form screen called, and the cleanup of its effect is queued;
\* with the list on top there is nothing to pop.
goBack ==
    IF ui.screen = "form"
    THEN [ui EXCEPT !.screen = "list", !.pending = Append(@, "cleanup")]
    ELSE ui

\* "Tentar novamente" of the form's error view:
\* userId ? fetchUserById(userId) : navigation.goBack().
formRetry ==
    /\ CanPress /\ ui.screen = "form" /\ error # Null
    /\ IF userId # NoId
       THEN /\ Len(tasks) < MaxForm
            /\ fetchUserById(userId)
            /\ ui' = Invoked("retry")
       ELSE /\ ui' = goBack
            /\ UNCHANGED <<store, tasks, ev, remote, clearedAt>>

\* The back button of the form screen's header: navigation.goBack().
formBack ==
    /\ CanPress /\ ui.screen = "form"
    /\ ui' = goBack
    /\ UNCHANGED <<store, tasks, ev, remote, clearedAt>>

\* The cleanup of the effect of UserFormScreen: setSelectedUser(null).
unmountForm ==
    /\ ui.pending # <<>> /\ Head(ui.pending) = "cleanup"
    /\ setSelectedUser(Null)
    /\ ui' = [ui EXCEPT !.pending = Tail(@)]

\* What the handler that awaits task i does when the thunk has finished:
\* handleSubmit shows the success alert and calls goBack when the promise
\* is fulfilled and the failure alert when it is rejected; the dialog's
\* handler shows its failure alert when deleteUser is rejected.
afterAwait(i) ==
    LET by == ui.origin[i][1]
        outcome == thunkOutcome(userServiceResult(tasks[i]))
    IN  CASE by = "submit" /\ outcome = "fulfilled" ->
                [goBack EXCEPT !.alerts = @ \cup {<<i, "Sucesso">>},
                           !.backs = @ \cup {i}]
          [] by \in {"submit", "delete"} /\ outcome # "fulfilled" ->
                [ui EXCEPT !.alerts = @ \cup {<<i, "Erro">>}]
          [] OTHER -> ui

\* The two screens over the store, against a remote API that answers every
\* request (its 404 for the user of the form included).
NextForm ==
    \/ listMount
    \/ listRefresh
    \/ listRetry
    \/ \E id \in Uuids : handleDelete(id)
    \/ confirmDelete
    \/ cancelDelete
    \/ navigateAdd
    \/ \E id \in Uuids : navigateEdit(id)
    \/ mountForm
    \/ \E d \in CreateInputs : handleSubmit(d)
    \/ formRetry
    \/ formBack
    \/ unmountForm
    \/ \E i \in 1..Len(tasks) : apiRespond(i)
    \/ \E i \in 1..Len(tasks) : Settle(i) /\ ui' = afterAwait(i)

SpecForm == Init /\ [][NextForm]_vars

(***************************************************************************)
(* Properties.                                                             *)
(***************************************************************************)
Done(i) == i \in 1..Len(tasks) /\ tasks[i].phase = "done"
Ok(i) == userServiceResult(tasks[i]).ok
\* The last operation on the store was the completion of task i.
JustSettled(i) == ev.op = "settle" /\ ev.i = i
\* Task j was invoked while task i (invoked earlier) was outstanding.
Overlap(i, j) == i < j /\ Done(i) /\ tasks[i].doneAt >= j
\* Tasks i and j finished one right after the other, in either order.
Adjacent(i, j) ==
    \/ tasks[i].doneSeq = tasks[j].doneSeq + 1
    \/ tasks[j].doneSeq = tasks[i].doneSeq + 1
Mutating == {"createUser", "updateUser", "deleteUser"}
Range(s) == {s[k] : k \in 1..Len(s)}
\* users shows the result of the successful mutation of task m.
Reflects(m) ==
    CASE tasks[m].kind = "createUser" -> tasks[m].body[1] \in Range(users)
      [] tasks[m].kind = "updateUser" ->
            \A k \in Find(users, tasks[m].id) : users[k] = tasks[m].body[1]
      [] tasks[m].kind = "deleteUser" -> Find(users, tasks[m].id) = {}
      [] OTHER -> TRUE

\* C1 (as claimed): in every reachable state loading is true if and only if
\* at least one store action is still outstanding.
C1_LoadingIffOutstanding == loading <=> (Outstanding # {})

\* C2: right after the invocation of any of the five store actions, before
\* any other operation on the store, loading is true and error is null,
\* whatever they were before.
C2_InvocationSetsPending == ev.op = "invoke" => (loading /\ error = Null)

C2_Witness ==
    /\ ev.op = "invoke"
    /\ ev.pre.error # Null /\ ~ev.pre.loading
    /\ loading /\ error = Null

\* C3: the completion of an action whose transport call failed sets error
\* to a non-null value and loading to false, and leaves users and
\* selectedUser as they were just before the completion.
C3_FailureKeepsData ==
    \A i \in 1..Len(tasks) :
        (JustSettled(i) /\ ~Ok(i)) =>
            /\ error # Null
            /\ ~loading
            /\ users = ev.pre.users
            /\ selectedUser = ev.pre.selectedUser

\* updateUser against a transport that reports not-found, with users loaded.
C3_Witness ==
    \E i \in 1..Len(tasks) :
        /\ JustSettled(i) /\ ~Ok(i)
        /\ tasks[i].kind = "updateUser" /\ tasks[i].status = "404"
        /\ users # <<>> /\ ev.pre.error = Null /\ error # Null

\* C4: when every transport call settles, every invoked action completes,
\* and whenever no action is outstanding loading is false: no failure, in
\* any interleaving, leaves loading stuck at true.
C4_NeverStuck ==
    /\ \A i \in 1..MaxLive : [](i <= Len(tasks) => <>Done(i))
    /\ [](Outstanding = {} => ~loading)

C4_Witness ==
    /\ Len(tasks) >= 2 /\ Outstanding = {} /\ ~loading
    /\ \E i \in 1..Len(tasks) : ~Ok(i) /\ JustSettled(i) /\ ev.pre.loading

\* C5 (as claimed): of two mutating actions on one identifier, a invoked
\* before b while both are outstanding, users shows b's result once both
\* have completed, whichever completed first.
C5_InvocationOrderWins ==
    \A a, b \in 1..Len(tasks) :
        ( /\ Overlap(a, b) /\ Done(b) /\ Ok(a) /\ Ok(b)
          /\ tasks[a].kind \in {"updateUser", "deleteUser"}
          /\ tasks[b].kind \in {"updateUser", "deleteUser"}
          /\ tasks[a].id = tasks[b].id
          /\ Adjacent(a, b)
          /\ (JustSettled(a) \/ JustSettled(b)) )
        => Reflects(b)

\* C6 (as claimed): updateUser(id) then deleteUser(id), invoked before the
\* update resolved, both successful: once both have completed, in either
\* order, users has no element with that identifier.
C6_UpdateThenDelete ==
    \A a, b \in 1..Len(tasks) :
        ( /\ Overlap(a, b) /\ Done(b) /\ Ok(a) /\ Ok(b)
          /\ tasks[a].kind = "updateUser" /\ tasks[b].kind = "deleteUser"
          /\ tasks[a].id = tasks[b].id
          /\ (JustSettled(a) \/ JustSettled(b)) )
        => Find(users, tasks[b].id) = {}

\* C7 (as claimed): when a mutation invoked after a fetchUsers has been
\* applied to users before the fetch completes, the completion of the fetch
\* does not discard or revert the mutation's effect.
C7_FetchKeepsLaterMutation ==
    \A f, m \in 1..Len(tasks) :
        ( /\ f < m /\ Done(m) /\ Ok(m) /\ tasks[m].kind \in Mutating
          /\ tasks[f].kind = "fetchUsers" /\ JustSettled(f) /\ Ok(f)
          /\ tasks[f].doneSeq = tasks[m].doneSeq + 1 )
        => Reflects(m)

\* C8 (as claimed): no two elements of users have the same identifier.
C8_UniqueIds ==
    \A k1, k2 \in 1..Len(users) : users[k1].id = users[k2].id => k1 = k2

\* C9: of two successful fetchUsers that were outstanding together, the one
\* that completed last decides users, whichever was invoked first.
C9_LastFetchWins ==
    \A a, b \in 1..Len(tasks) :
        ( /\ Overlap(a, b) /\ Done(b) /\ Ok(a) /\ Ok(b)
          /\ tasks[a].kind = "fetchUsers" /\ tasks[b].kind = "fetchUsers"
          /\ (JustSettled(a) \/ JustSettled(b)) )
        => users = tasks[ev.i].body

\* The fetch invoked first completed last, with another list than the
\* other fetch got.
C9_Witness ==
    \E a, b \in 1..Len(tasks) :
        /\ Overlap(a, b) /\ Done(b) /\ Ok(a) /\ Ok(b)
        /\ tasks[a].kind = "fetchUsers" /\ tasks[b].kind = "fetchUsers"
        /\ JustSettled(a)
        /\ tasks[a].body # tasks[b].body
        /\ users = tasks[a].body

\* Task f ran alone: every other task had finished before f was invoked and
\* none was invoked before f finished.
Alone(f) ==
    /\ f = Len(tasks)
    /\ \A j \in 1..(f-1) : Done(j) /\ tasks[j].doneAt < f

\* C10: a successful fetchUsers that ran alone leaves users equal to the
\* fetched sequence, loading false, error null and selectedUser untouched.
C10_FetchReplaces ==
    \A f \in 1..Len(tasks) :
        (JustSettled(f) /\ Ok(f) /\ tasks[f].kind = "fetchUsers" /\ Alone(f)) =>
            /\ users = tasks[f].body
            /\ ~loading
            /\ error = Null
            /\ selectedUser = ev.pre.selectedUser

\* The fetch replaced other contents, by two users in the server's order,
\* while a user was selected.
C10_Witness ==
    \E f \in 1..Len(tasks) :
        /\ JustSettled(f) /\ Ok(f) /\ tasks[f].kind = "fetchUsers" /\ Alone(f)
        /\ ev.pre.users # <<>> /\ ev.pre.users # users
        /\ users = db /\ Len(users) = 2
        /\ selectedUser # Null

\* C11: the completion of a successful fetchUserById(id) sets selectedUser
\* to the fetched user and leaves users as it was, whether or not users
\* holds an element with that identifier.
C11_FetchByIdSelects ==
    \A i \in 1..Len(tasks) :
        (JustSettled(i) /\ Ok(i) /\ tasks[i].kind = "fetchUserById") =>
            /\ selectedUser = <<tasks[i].body[1]>>
            /\ users = ev.pre.users

\* users holds an older value of the fetched user, and keeps it.
C11_Witness ==
    \E i \in 1..Len(tasks) :
        /\ JustSettled(i) /\ Ok(i) /\ tasks[i].kind = "fetchUserById"
        /\ ev.pre.selectedUser = Null
        /\ selectedUser = <<tasks[i].body[1]>>
        /\ \E k \in Find(users, tasks[i].id) : users[k] # selectedUser[1]

\* C12: the completion of a successful createUser appends the returned user
\* to users as it is at that moment: the elements already there keep their
\* places and the length grows by one.
C12_CreateAppends ==
    \A c \in 1..Len(tasks) :
        (JustSettled(c) /\ Ok(c) /\ tasks[c].kind = "createUser") =>
            users = Append(ev.pre.users, tasks[c].body[1])

\* A fetchUsers filled users between the invocation of the createUser and
\* its completion.
C12_Witness ==
    \E c, f \in 1..Len(tasks) :
        /\ JustSettled(c) /\ Ok(c) /\ tasks[c].kind = "createUser"
        /\ tasks[f].kind = "fetchUsers" /\ Done(f) /\ Ok(f)
        /\ tasks[f].doneAt >= c /\ tasks[f].doneSeq < tasks[c].doneSeq
        /\ ev.pre.users = tasks[f].body /\ ev.pre.users # <<>>
        /\ Len(users) = Len(ev.pre.users) + 1
        /\ users[Len(users)] = tasks[c].body[1]

\* C13: the completion of a successful updateUser(id, ...) on users holding
\* an element with identifier id puts the returned user in that element's
\* place; the other elements and the length of users stay as they were.
C13_UpdateReplacesInPlace ==
    \A i \in 1..Len(tasks) :
        ( /\ JustSettled(i) /\ Ok(i) /\ tasks[i].kind = "updateUser"
          /\ Find(ev.pre.users, tasks[i].id) # {} )
        => /\ Len(users) = Len(ev.pre.users)
           /\ \A k \in 1..Len(users) :
                 users[k] = IF ev.pre.users[k].id = tasks[i].id
                            THEN tasks[i].body[1] ELSE ev.pre.users[k]

\* The first of two users was updated to a new value.
C13_Witness ==
    \E i \in 1..Len(tasks) :
        /\ JustSettled(i) /\ Ok(i) /\ tasks[i].kind = "updateUser"
        /\ Len(ev.pre.users) = 2 /\ Len(users) = 2
        /\ ev.pre.users[1].id = tasks[i].id /\ ev.pre.users[2].id # tasks[i].id
        /\ users[1] = tasks[i].body[1] /\ users[1] # ev.pre.users[1]
        /\ users[2] = ev.pre.users[2]

\* C14 (as claimed): after the completion of a successful updateUser(id,
\* ...), a selectedUser with identifier id equals the returned user.
C14_UpdateKeepsSelectionConsistent ==
    \A i \in 1..Len(tasks) :
        ( /\ JustSettled(i) /\ Ok(i) /\ tasks[i].kind = "updateUser"
          /\ selectedUser # Null )
        => (selectedUser[1].id = tasks[i].id => selectedUser[1] = tasks[i].body[1])

\* C15 (as claimed): the completion of a successful updateUser(id, ...) on
\* users holding no element with identifier id appends the returned user.
C15_UpdateAppendsWhenMissing ==
    \A i \in 1..Len(tasks) :
        ( /\ JustSettled(i) /\ Ok(i) /\ tasks[i].kind = "updateUser"
          /\ Find(ev.pre.users, tasks[i].id) = {} )
        => users = Append(ev.pre.users, tasks[i].body[1])

\* C16: the completion of a successful deleteUser(id) removes from users
\* every element with identifier id and nothing else; the elements that
\* remain keep their values and their order.
C16_DeleteRemovesAll ==
    \A i \in 1..Len(tasks) :
        (JustSettled(i) /\ Ok(i) /\ tasks[i].kind = "deleteUser") =>
            /\ Find(users, tasks[i].id) = {}
            /\ users = SelectSeq(ev.pre.users, LAMBDA u : u.id # tasks[i].id)

\* users held the deleted identifier twice, after another user.
C16_Witness ==
    \E i \in 1..Len(tasks) :
        /\ JustSettled(i) /\ Ok(i) /\ tasks[i].kind = "deleteUser"
        /\ Len(ev.pre.users) = 3
        /\ Cardinality(Find(ev.pre.users, tasks[i].id)) = 2
        /\ users = <<ev.pre.users[1]>>

\* C17 (as claimed): after the completion of a successful deleteUser(id), a
\* selectedUser that had identifier id is null.
C17_DeleteClearsSelection ==
    \A i \in 1..Len(tasks) :
        ( /\ JustSettled(i) /\ Ok(i) /\ tasks[i].kind = "deleteUser"
          /\ ev.pre.selectedUser # Null )
        => (ev.pre.selectedUser[1].id = tasks[i].id => selectedUser = Null)

\* The issues the schema of the userService method raises for the body of
\* task i.
OutboundIssues(i) ==
    CASE tasks[i].service = "create" -> createUserSchema(tasks[i].data)
      [] tasks[i].service = "update" -> updateUserSchema(tasks[i].data)
      [] OTHER -> <<>>

\* C18: userService.create and userService.update never have a request in
\* flight or answered whose body fails createUserSchema / updateUserSchema;
\* a failing body ends the call, rejected, with no request sent.
C18_NoInvalidBodySent ==
    \A i \in 1..Len(tasks) :
        /\ (tasks[i].phase = "sent" \/ tasks[i].status # "none")
              => OutboundIssues(i) = <<>>
        /\ OutboundIssues(i) # <<>>
              => /\ tasks[i].phase \in {"settled", "done"}
                 /\ tasks[i].status = "none"
                 /\ ~Ok(i)

\* A create and an update with failing bodies have ended without a request,
\* while a valid update has been sent and answered.
C18_Witness ==
    \E i, j, k \in 1..Len(tasks) :
        /\ tasks[i].service = "create" /\ OutboundIssues(i) # <<>> /\ Done(i)
        /\ tasks[j].service = "update" /\ OutboundIssues(j) # <<>> /\ Done(j)
        /\ tasks[i].status = "none" /\ tasks[j].status = "none"
        /\ tasks[k].service = "update" /\ OutboundIssues(k) = <<>>
        /\ tasks[k].status = "200"

\* The rules of the fields, as the contract states them: a name of 1 to
\* 255 characters, a well-formed email, a password of at least 6 characters
\* with a lower-case letter, an upper-case letter and a digit.
Contains(s, S) == \E i \in 1..Len(s) : s[i] \in S
BreaksRule(f, v) ==
    CASE f = "name" -> Len(v) < 1 \/ Len(v) > MaxNameLen
      [] f = "email" -> ~IsEmail(v)
      [] f = "password" ->
            \/ Len(v) < MinPasswordLen
            \/ ~(Contains(v, Lower) /\ Contains(v, Upper) /\ Contains(v, Digit))

\* The fields of a create input that violate their rule; a field that is
\* not there violates it.
ViolatedFields(d) ==
    {f \in DTOFields : f \notin DOMAIN d \/ BreaksRule(f, d[f])}

ViolatesCreateRule(d) == ViolatedFields(d) # {}

\* C19 (as claimed): a createUser whose input violates a create rule is
\* rejected by the store itself and never reaches userService.
C19_StoreRejectsItself ==
    \A i \in 1..Len(tasks) :
        (tasks[i].kind = "createUser" /\ ViolatesCreateRule(tasks[i].data))
            => tasks[i].service # "create"

\* C19 (amended): a createUser whose input violates a create rule is passed
\* to userService.create, which rejects it before any request is sent; the
\* completion of the createUser records the failure in error and leaves
\* users as it was.
C19_InvalidCreateSendsNothing ==
    \A i \in 1..Len(tasks) :
        (tasks[i].kind = "createUser" /\ ViolatesCreateRule(tasks[i].data)) =>
            /\ tasks[i].service = "create"
            /\ tasks[i].phase # "sent" /\ tasks[i].status = "none"
            /\ JustSettled(i) =>
                  /\ error # Null /\ error = createUserSchema(tasks[i].data)
                  /\ users = ev.pre.users

\* An empty name, on a store holding users and no error.
C19_Witness ==
    \E i \in 1..Len(tasks) :
        /\ tasks[i].kind = "createUser" /\ tasks[i].data["name"] = <<>>
        /\ JustSettled(i) /\ tasks[i].status = "none"
        /\ ev.pre.error = Null /\ error # Null
        /\ users # <<>> /\ users = ev.pre.users /\ db = users

\* C20: every user that userService.list, getById, create or update hands
\* back has passed userResponseSchema, hence so has every user in users and
\* in selectedUser; the completion of an action whose response body fails
\* userResponseSchema leaves users and selectedUser as they were.
C20_InboundValidated ==
    /\ \A i \in 1..Len(tasks) :
          (tasks[i].phase # "sent" /\ Ok(i)) =>
              userArraySchema(userServiceResult(tasks[i]).value) = <<>>
    /\ userArraySchema(users) = <<>>
    /\ userArraySchema(selectedUser) = <<>>
    /\ \A i \in 1..Len(tasks) :
          ( /\ JustSettled(i) /\ tasks[i].service # "delete"
            /\ tasks[i].status = "200" /\ userArraySchema(tasks[i].body) # <<>> )
          => users = ev.pre.users /\ selectedUser = ev.pre.selectedUser

\* A list response with a bad date-time arrived on a store holding users.
C20_Witness ==
    \E i \in 1..Len(tasks) :
        /\ JustSettled(i) /\ tasks[i].service = "list"
        /\ tasks[i].status = "200" /\ userArraySchema(tasks[i].body) # <<>>
        /\ users # <<>> /\ users = ev.pre.users /\ users # tasks[i].body
        /\ error = userArraySchema(tasks[i].body)

\* The message of the Error a not-found response makes api.delete throw.
NotFoundMessage == <<Plain("Request failed with status code 404")>>

\* C23: a deleteUser(id) invoked after a successful deleteUser(id) has
\* completed is never answered with success; answered with not-found, its
\* completion leaves users as it was (nothing more is removed), records the
\* not-found error and sets loading to false.
C23_DeleteIdempotent ==
    \A i, j \in 1..Len(tasks) :
        ( /\ i < j /\ Done(i) /\ Ok(i) /\ tasks[i].doneAt < j
          /\ tasks[i].kind = "deleteUser" /\ tasks[j].kind = "deleteUser"
          /\ tasks[i].id = tasks[j].id )
        => /\ tasks[j].status # "200"
           /\ (JustSettled(j) /\ tasks[j].status = "404") =>
                 /\ users = ev.pre.users
                 /\ error = NotFoundMessage
                 /\ ~loading

\* The first delete emptied a loaded users; the second one ended not-found.
C23_Witness ==
    \E i, j \in 1..Len(tasks) :
        /\ i < j /\ Done(i) /\ Ok(i) /\ tasks[i].doneAt < j
        /\ tasks[i].kind = "deleteUser" /\ tasks[j].kind = "deleteUser"
        /\ tasks[i].id = tasks[j].id
        /\ JustSettled(j) /\ tasks[j].status = "404"
        /\ \E f \in 1..Len(tasks) :
              /\ tasks[f].kind = "fetchUsers" /\ Done(f) /\ Ok(f)
              /\ tasks[f].doneSeq < tasks[i].doneSeq
              /\ Find(tasks[f].body, tasks[i].id) # {}
        /\ users = <<>> /\ error = NotFoundMessage /\ ~loading

\* C24: the promise each of the five thunks returns is always fulfilled,
\* never rejected; the completion of a thunk whose userService call failed
\* (validation, network, status, malformed body) records the failure's
\* message in error.
C24_ThunksNeverReject ==
    \A i \in 1..Len(tasks) :
        /\ tasks[i].outcome \in {"pending", "fulfilled"}
        /\ Done(i) <=> tasks[i].outcome = "fulfilled"
        /\ (JustSettled(i) /\ ~Ok(i)) =>
              error # Null /\ error = userServiceResult(tasks[i]).message

\* A validation failure, a not-found and a network failure, each ended with
\* its promise fulfilled.
C24_Witness ==
    \E i, j, k \in 1..Len(tasks) :
        /\ tasks[i].invalid # <<>> /\ tasks[i].outcome = "fulfilled"
        /\ tasks[j].status = "404" /\ tasks[j].outcome = "fulfilled"
        /\ tasks[k].status = "neterr" /\ tasks[k].outcome = "fulfilled"
        /\ JustSettled(k) /\ error = <<Plain("Network Error")>>

\* The failure classes of the contract, for a task whose call failed.
FailureClass(t) ==
    CASE t.invalid # <<>> -> "Validation"
      [] t.status = "neterr" -> "Network"
      [] t.status = "404" -> "NotFound"
      [] t.status = "500" -> "Server"
      [] OTHER -> "MalformedResponse"

\* The messages with which the userService method of task t can reject an
\* input of its caller.
OutboundFailures(t) ==
    CASE t.service = "create" -> {createUserSchema(d) : d \in DTOs} \ {<<>>}
      [] t.service = "update" -> {updateUserSchema(d) : d \in DTOs} \ {<<>>}
      [] OTHER -> {}

\* The messages of the rejections by the server.
ServerFailures ==
    { <<Plain("Request failed with status code 404")>>,
      <<Plain("Request failed with status code 500")>> }

\* C21 (as claimed): the error with which a userService method reports a
\* success response whose body fails inbound validation differs from every
\* error with which it reports an outbound validation failure or a
\* rejection by the server.
C21_MalformedDistinct ==
    \A i \in 1..Len(tasks) :
        ( /\ tasks[i].phase # "sent" /\ ~Ok(i)
          /\ FailureClass(tasks[i]) = "MalformedResponse" )
        => /\ userServiceResult(tasks[i]).message \notin OutboundFailures(tasks[i])
           /\ userServiceResult(tasks[i]).message \notin ServerFailures

\* The errors each failure class can put into error: for a malformed
\* response, the issues of a user with a bad date-time or without a name.
ErrorsOf(c) ==
    CASE c = "Validation" ->
            ({createUserSchema(d) : d \in DTOs} \cup {updateUserSchema(d) : d \in DTOs})
                \ {<<>>}
      [] c = "Network" -> {<<Plain("Network Error")>>}
      [] c = "NotFound" -> {<<Plain("Request failed with status code 404")>>}
      [] c = "Server" -> {<<Plain("Request failed with status code 500")>>}
      [] c = "MalformedResponse" ->
            { inboundIssues([kind |-> k, body |-> g])
                : k \in {"fetchUsers", "createUser"},
                  g \in {Garble(db), GarbleNoName(db)} }

\* C22 (as claimed): after a failed action, error identifies the failure
\* class (NotFound, Validation, Network, Server, MalformedResponse): it is
\* not a value that a failure of another class records.
C22_ErrorIdentifiesKind ==
    \A i \in 1..Len(tasks) :
        (JustSettled(i) /\ ~Ok(i)) =>
            \A c \in {"Validation", "Network", "NotFound", "Server", "MalformedResponse"} :
                error \in ErrorsOf(c) => c = FailureClass(tasks[i])

\* The fields the issues of a validation failure are about.
IssueFields(issues) == {issues[k][2] : k \in 1..Len(issues)}

\* C27 (as claimed): for every create input, the fields reported by
\* createUserSchema are exactly the fields among name, email and password
\* that violate their rule, all of them together; an input violating none
\* is accepted and sent.
C27_AllViolationsReported ==
    \A i \in 1..Len(tasks) :
        tasks[i].kind = "createUser" =>
            /\ IssueFields(createUserSchema(tasks[i].data)) = ViolatedFields(tasks[i].data)
            /\ tasks[i].invalid = createUserSchema(tasks[i].data)
            /\ ViolatedFields(tasks[i].data) = {} <=> tasks[i].invalid = <<>>

\* The issues createUserSchema raises for value v of field f.
createFieldIssues(f, v) ==
    CASE f = "name" -> nameIssues([name |-> v])
      [] f = "email" -> emailIssues([email |-> v])
      [] f = "password" -> passwordIssues([password |-> v])

\* C28: updateUserSchema accepts an input exactly when every field that is
\* present satisfies its rule of createUserSchema; any fields, all of them
\* too, may be absent.
C28_UpdatePartial ==
    \A i \in 1..Len(tasks) :
        tasks[i].kind = "updateUser" =>
            /\ updateUserSchema(tasks[i].data) = <<>>
                  <=> \A f \in DOMAIN tasks[i].data :
                          createFieldIssues(f, tasks[i].data[f]) = <<>>
            /\ IssueFields(updateUserSchema(tasks[i].data))
                  = {f \in DOMAIN tasks[i].data :
                          createFieldIssues(f, tasks[i].data[f]) # <<>>}
            /\ tasks[i].invalid = updateUserSchema(tasks[i].data)

\* An update with no field at all was accepted, sent and answered.
C28_Witness ==
    \E i \in 1..Len(tasks) :
        /\ tasks[i].kind = "updateUser" /\ DOMAIN tasks[i].data = {}
        /\ tasks[i].invalid = <<>> /\ tasks[i].status = "200" /\ Done(i) /\ Ok(i)

\* C25 (as claimed): users and loading change only by the five store
\* actions, at their invocation or completion; no other operation of the
\* store overwrites them.
C25_OnlyActionsWrite ==
    (users # ev.pre.users \/ loading # ev.pre.loading)
        => ev.op \in {"invoke", "settle"}

\* C26: setSelectedUser(x) changes only selectedUser and setError(null)
\* changes only error; users, loading and the other field stay as they are,
\* also while actions are outstanding, and no request is created, sent or
\* answered by either.
C26_SettersPure ==
    [][ /\ (ev' # ev /\ ev'.op = "setSelectedUser")
              => UNCHANGED <<users, loading, error, tasks, db, nextId, faults>>
        /\ (ev' # ev /\ ev'.op = "setError" /\ error' = Null)
              => UNCHANGED <<users, loading, selectedUser, tasks, db, nextId, faults>>
      ]_vars

\* The selection was cleared while an action was outstanding and an error
\* was recorded.
C26_Witness ==
    /\ ev.op = "setSelectedUser"
    /\ ev.pre.selectedUser # Null /\ selectedUser = Null
    /\ Outstanding # {}
    /\ error # Null /\ error = ev.pre.error

\* C29: an error recorded by a failed action becomes null only at the next
\* invocation of an action or by setError(null); the successful completion
\* of another action leaves error as it is.
C29_ErrorSurvivesSuccess ==
    /\ (ev.pre.error # Null /\ error = Null) => ev.op \in {"invoke", "setError"}
    /\ \A i \in 1..Len(tasks) : (JustSettled(i) /\ Ok(i)) => error = ev.pre.error

\* A fetchUsers completed with success after a concurrent action had
\* failed: the error of that action is still there.
C29_Witness ==
    \E i, j \in 1..Len(tasks) :
        /\ i # j /\ JustSettled(i) /\ Ok(i) /\ tasks[i].kind = "fetchUsers"
        /\ Done(j) /\ ~Ok(j) /\ tasks[j].doneAt = Len(tasks)
        /\ tasks[j].doneSeq < tasks[i].doneSeq
        /\ users # <<>>
        /\ error # Null /\ error = userServiceResult(tasks[j]).message

\* C30 (as claimed): once the selection is cleared by setSelectedUser(null),
\* selectedUser stays null as long as no fetchUserById is invoked after the
\* clear.
C30_ClearedStaysCleared ==
    (clearedAt # <<>> /\ \A j \in 1..Len(tasks) :
                            j > clearedAt[1] => tasks[j].kind # "fetchUserById")
        => selectedUser = Null

\* The tasks invoked by pressing "Salvar".
Submits == {i \in 1..Len(ui.origin) : ui.origin[i][1] = "submit"}

\* C31: handleSubmit shows the success alert and navigates back only for an
\* awaited updateUser/createUser whose service call succeeded; a failed one
\* gets neither the success alert nor the navigation.
C31_SuccessOnlyWhenSucceeded ==
    \A i \in Submits :
        /\ (<<i, "Sucesso">> \in ui.alerts \/ i \in ui.backs) => Ok(i)
        /\ (Done(i) /\ ~Ok(i)) => <<i, "Erro">> \in ui.alerts

\* C32: while an updateUser/createUser invoked by the form is outstanding,
\* the form's "Salvar" button cannot be pressed, whatever other store
\* actions complete in the meantime.
C32_OneSubmitInFlight ==
    \A i \in Submits : i \in Outstanding => ~(ButtonShown /\ CanPress)

\* C33: a form screen opened without a user id invokes no fetchUserById on
\* mount and its submit invokes createUser; updateUser is invoked only by a
\* form screen opened for a user's id.
C33_AddCreates ==
    \A i \in 1..Len(ui.origin) :
        LET o == ui.origin[i] IN
        /\ o[1] = "mount" => o[2] # <<>>
        /\ o[1] = "submit" /\ o[2] = <<>> => tasks[i].kind = "createUser"
        /\ tasks[i].kind = "updateUser" => o[2] # <<>>

====
